---- MODULE Spec2Model ----
(***************************************************************************)
(* Model of the session / request-dispatch layer of the HSE Digital Python *)
(* SDK (sdks/python/hse_digital/client.py): the token pair held by an      *)
(* HSEClient, HSEClient._request with its refresh-on-401 path, the refresh *)
(* cycle, the error classification and the facade methods that drive them. *)
(*                                                                         *)
(* Tokens are numbers: 0 is None, n > 0 is the access (or refresh) token   *)
(* of the n-th token pair the server can issue.  A step of a thread is one *)
(* statement group of the source; `call[t]` records what the current (or   *)
(* last) public call of thread t has done so far.                          *)
(***************************************************************************)
EXTENDS Integers, Sequences, FiniteSets, TLC

\* Number of distinct token pairs the server can issue.
MaxPair == 2

\* None, for a token field.
NoToken == 0

Tokens == 0..MaxPair

\* Python truthiness of a token field (`if self.access_token`, `and self.refresh_token`).
Present(tok) == tok # NoToken

-----------------------------------------------------------------------------
(* HTTP responses as the transport hands them to _request.                 *)

\* Status codes the server may answer with (one or more of every class).
Statuses == {100, 200, 204, 304, 400, 401, 403, 404, 429, 500, 501}

\* A response body: its shape, and for a JSON object the fields it has.
\* access / refresh are the token ids of "accessToken" / "refreshToken",
\* 0 when the field is missing.
Body(shape, error, details, access, refresh) ==
    [shape |-> shape, error |-> error, details |-> details,
     access |-> access, refresh |-> refresh]

\* Python None as a returned value.
NoneValue == Body("none", FALSE, FALSE, 0, 0)

EmptyBody == Body("empty", FALSE, FALSE, 0, 0)

TokenBody(n) == Body("obj", FALSE, FALSE, n, n)

Bodies ==
    { EmptyBody,                                 \* no content
      Body("text", FALSE, FALSE, 0, 0),          \* non-JSON text
      Body("list", FALSE, FALSE, 0, 0),          \* JSON, not an object
      Body("obj", FALSE, FALSE, 0, 0),           \* {}
      Body("obj", TRUE, FALSE, 0, 0),            \* {"error": ..}
      Body("obj", TRUE, TRUE, 0, 0),             \* {"error": .., "details": ..}
      Body("obj", FALSE, TRUE, 0, 0),            \* {"details": ..}
      Body("obj", FALSE, FALSE, 1, 0) }          \* {"accessToken": ..} only
    \cup { TokenBody(n) : n \in 1..MaxPair }     \* a full token pair

Responses == [status : Statuses, body : Bodies]

-----------------------------------------------------------------------------
(* Errors (exceptions.py) and outcomes of a call.                          *)

\* An exception value: class name, status_code (0 is None), message, details.
Exc(cls, status, msg, details) ==
    [cls |-> cls, status |-> status, msg |-> msg, details |-> details]

NoExc == Exc("none", 0, "", "none")

\* The classes of exceptions.py: HSEAPIError and its subclasses.
TypedErrors ==
    {"HSEAPIError", "AuthenticationError", "ValidationError",
     "NotFoundError", "RateLimitError", "ServerError"}

\* An outcome: nothing yet, a returned value, or a raised exception.
NoOutcome == [kind |-> "none", exc |-> NoExc, value |-> NoneValue]

Return(v) == [kind |-> "return", exc |-> NoExc, value |-> v]

Raise(e) == [kind |-> "raise", exc |-> e, value |-> NoneValue]

-----------------------------------------------------------------------------
(* Pure helpers of client.py.                                              *)

\* _get_headers: the Authorization header, <<>> when no access token is set.
_get_headers(access) ==
    IF Present(access) THEN <<"Bearer", access>> ELSE <<>>

\* A message that falls back to the raw text whenever no "error" field was
\* found, also for a JSON object.
ErrorMessageTextFallback(body) ==
    CASE body.shape = "obj" /\ body.error -> "error-field"
      [] body.shape = "empty" -> "Unknown error"
      [] OTHER -> "raw-text"

\* The message _handle_error extracts: error_data.get("error", "Unknown
\* error") for a JSON object; a JSON non-object has no .get and a non-JSON
\* body does not parse, both fall to `response.text or "Unknown error"`.
ErrorMessage(body) ==
    CASE body.shape = "obj" -> IF body.error THEN "error-field" ELSE "Unknown error"
      [] body.shape = "empty" -> "Unknown error"
      [] OTHER -> "raw-text"

\* The details _handle_error extracts: error_data.get("details"), else None.
ErrorDetails(body) ==
    IF body.shape = "obj" /\ body.details THEN "details-field" ELSE "none"

\* The chain with `> 500` for the server errors.
ErrorClassAbove500(status) ==
    CASE status = 401 -> "AuthenticationError"
      [] status = 400 -> "ValidationError"
      [] status = 404 -> "NotFoundError"
      [] status = 429 -> "RateLimitError"
      [] status > 500 -> "ServerError"
      [] OTHER -> "HSEAPIError"

\* The chain without its 401 branch.
ErrorClassNo401(status) ==
    CASE status = 400 -> "ValidationError"
      [] status = 404 -> "NotFoundError"
      [] status = 429 -> "RateLimitError"
      [] status >= 500 -> "ServerError"
      [] OTHER -> "HSEAPIError"

\* The if/elif chain of _handle_error.
ErrorClass(status) ==
    CASE status = 401 -> "AuthenticationError"
      [] status = 400 -> "ValidationError"
      [] status = 404 -> "NotFoundError"
      [] status = 429 -> "RateLimitError"
      [] status >= 500 -> "ServerError"
      [] OTHER -> "HSEAPIError"

\* _handle_error: the exception it raises for a response.
_handle_error(resp) ==
    Exc(ErrorClass(resp.status), resp.status,
        ErrorMessage(resp.body), ErrorDetails(resp.body))

\* An ok check that lets client errors through.
ResponseOkBelow500(status) == status < 500

\* response.ok of requests: raise_for_status() raises for 400..599 only.
ResponseOk(status) == ~(400 <= status /\ status < 600)

\* The statuses the mounted Retry strategy retries (status_forcelist).
StatusForcelist == {429, 500, 502, 503, 504}

\* A transport failure reported as a server error with a status code.
RequestFailedAsServerError == Exc("ServerError", 500, "Request failed", "none")

\* `except requests.exceptions.RequestException as e` of _request.
RequestFailed == Exc("HSEAPIError", 0, "Request failed", "none")

\* What session.request raises when the transport gives up.
TransportError == Exc("RequestException", 0, "transport", "none")

\* A server answer for one request: a response, or no response at all
\* (connection error, timeout).
NoAnswer == [status |-> 0, body |-> EmptyBody]

Answers == Responses \cup {NoAnswer}

\* The answers considered while several threads use the client: no answer,
\* 401, an empty success and a success carrying a token pair.
FewAnswers ==
    { NoAnswer,
      [status |-> 401, body |-> EmptyBody],
      [status |-> 200, body |-> EmptyBody] }
    \cup { [status |-> 200, body |-> TokenBody(n)] : n \in 1..MaxPair }

\* The answers the server may give to the callers T.
ServerAnswers(T) == IF Cardinality(T) > 1 THEN FewAnswers ELSE Answers

\* session.request for a server answer: the response, or failed when it
\* raises.  No answer raises ConnectionError / Timeout; an answer whose status
\* is in the forcelist is retried until the retries are exhausted, which
\* raises RetryError.
Transport(answer) ==
    [failed |-> answer = NoAnswer \/ answer.status \in StatusForcelist,
     status |-> answer.status, body |-> answer.body]

\* What a call records of a request's fate: the response, or Failed when
\* session.request raised.
Failed == [status |-> -1, body |-> EmptyBody]

Got(tr) == IF tr.failed THEN Failed ELSE [status |-> tr.status, body |-> tr.body]

\* The tail of _request for a response: `if not response.ok`, the 204 / empty
\* content case, response.json(), under the outer `except RequestException`.
\* jsonErr says whether the installed requests raises its own JSONDecodeError
\* (a RequestException) or the json module's ValueError.
RequestResult(resp, jsonErr) ==
    IF ~ResponseOk(resp.status) THEN Raise(_handle_error(resp))
    ELSE IF resp.status = 204 \/ resp.body.shape = "empty" THEN Return(NoneValue)
    ELSE IF resp.body.shape = "text"
         THEN IF jsonErr THEN Raise(RequestFailed)
              ELSE Raise(Exc("ValueError", 0, "json", "none"))
    ELSE Return(resp.body)

\* AuthTokens(access_token=result["accessToken"], refresh_token=result[
\* "refreshToken"]) of login, signup and _refresh_access_token: the pair, or
\* the exception subscripting raises.
ExtractTokens(value) ==
    CASE value.shape \in {"none", "list"} -> Raise(Exc("TypeError", 0, "subscript", "none"))
      [] value.access = 0 -> Raise(Exc("KeyError", 0, "accessToken", "none"))
      [] value.refresh = 0 -> Raise(Exc("KeyError", 0, "refreshToken", "none"))
      [] OTHER -> Return(value)

-----------------------------------------------------------------------------
(* The client and the calls in progress.                                   *)

VARIABLES
    access_token,       \* self.access_token
    refresh_token,      \* self.refresh_token
    on_token_refresh,   \* whether an observer was given to the constructor
    json_error_wrapped, \* whether response.json() raises a RequestException
    threads,            \* the threads that use the client
    pc,                 \* pc[t]: where thread t is in its call
    call                \* call[t]: what the call of thread t has done

vars == <<access_token, refresh_token, on_token_refresh, json_error_wrapped,
          threads, pc, call>>

config == <<on_token_refresh, json_error_wrapped, threads>>

\* The record of a public call that starts with the tokens <<a, r>>.
NewCall(op, a, r) ==
    [op |-> op,                 \* the public method
     pre |-> <<a, r>>,          \* the tokens when it was called
     events |-> <<>>,           \* the requests given to the transport, in order
     r1 |-> NoAnswer,           \* what the first send got from the transport
     rR |-> NoAnswer,           \* what the refresh request got
     r2 |-> NoAnswer,           \* what the resend got
     refreshed |-> <<0, 0>>,    \* the pair a successful refresh cycle committed
     refreshOut |-> NoOutcome,  \* outcome of _refresh_access_token
     cleared |-> FALSE,         \* the `except Exception` of _request ran
     req |-> NoOutcome,         \* outcome of _request
     reqTok |-> <<0, 0>>,       \* the tokens when _request was left
     reqNotified |-> 0,         \* the observer's invocations by then
     result |-> NoOutcome,      \* outcome of the public method
     notified |-> <<>>,         \* the observer's invocations
     tok |-> <<0, 0>>,          \* argument of the set_tokens in progress
     after |-> "none",          \* what follows the set_tokens / clear_tokens
     pend |-> NoExc]            \* the exception the except clause re-raises

Idle == NewCall("none", 0, 0)

\* One session.request(...) of the call: what is sent, with which
\* Authorization header, and the refresh token in its JSON body (0: none).
Sent(c, what, auth, token) ==
    [c EXCEPT !.events = Append(@, [what |-> what, auth |-> auth, token |-> token])]

\* retry_on_401 left at its default for the refresh request as well.
RetryOn401Always(what) == TRUE

\* The retry_on_401 argument: the default True for the facade's calls,
\* False for the request _refresh_access_token makes.
RetryOn401(what) == what # "refresh"

\* The condition taken for every client error, not only 401.
ShouldRefreshOnAny4xx(status, retry, refresh) ==
    400 <= status /\ status <= 499 /\ retry /\ Present(refresh)

\* The condition without its test of the refresh token.
ShouldRefreshAnyToken(status, retry, refresh) ==
    status = 401 /\ retry

\* `response.status_code == 401 and retry_on_401 and self.refresh_token`.
ShouldRefresh(status, retry, refresh) ==
    status = 401 /\ retry /\ Present(refresh)

\* login and signup that keep the pair of a refresh cycle made during the
\* call instead of committing the pair of their own response.
AfterRequestKeepRefreshed(c, out, a, r) ==
    LET c1 == [c EXCEPT !.req = out, !.reqTok = <<a, r>>,
                        !.reqNotified = Len(c.notified)]
        ext == ExtractTokens(out.value)
    IN  CASE out.kind = "raise" ->
               [pc |-> "idle", call |-> [c1 EXCEPT !.result = out]]
          [] out.kind = "return" /\ c.op \in {"login", "signup"} ->
               IF ext.kind = "raise"
               THEN [pc |-> "idle", call |-> [c1 EXCEPT !.result = ext]]
               ELSE IF c.refreshOut.kind = "return"
               THEN [pc |-> "idle", call |-> [c1 EXCEPT !.result = out]]
               ELSE [pc |-> "set_a",
                     call |-> [c1 EXCEPT !.tok = <<ext.value.access, ext.value.refresh>>,
                                         !.after = "return"]]
          [] out.kind = "return" /\ c.op = "logout" ->
               [pc |-> "clr_a", call |-> [c1 EXCEPT !.after = "return"]]
          [] OTHER ->
               [pc |-> "idle", call |-> [c1 EXCEPT !.result = out]]

\* The facade code after `result = self._request(...)` left with `out` while
\* the tokens are <<a, r>>: login and signup build AuthTokens and call
\* set_tokens, logout calls clear_tokens, a resource method returns the result;
\* an exception of _request propagates.
AfterRequest(c, out, a, r) ==
    LET c1 == [c EXCEPT !.req = out, !.reqTok = <<a, r>>,
                        !.reqNotified = Len(c.notified)]
        ext == ExtractTokens(out.value)
    IN  CASE out.kind = "raise" ->
               [pc |-> "idle", call |-> [c1 EXCEPT !.result = out]]
          [] out.kind = "return" /\ c.op \in {"login", "signup"} ->
               IF ext.kind = "raise"
               THEN [pc |-> "idle", call |-> [c1 EXCEPT !.result = ext]]
               ELSE [pc |-> "set_a",
                     call |-> [c1 EXCEPT !.tok = <<ext.value.access, ext.value.refresh>>,
                                         !.after = "return"]]
          [] out.kind = "return" /\ c.op = "logout" ->
               [pc |-> "clr_a", call |-> [c1 EXCEPT !.after = "return"]]
          [] OTHER ->
               [pc |-> "idle", call |-> [c1 EXCEPT !.result = out]]

\* A resend made through self._request(...) again: a 401 starts another
\* refresh cycle.
AfterResendLoop(c, tr, a, r) ==
    IF ShouldRefresh(tr.status, TRUE, r)
    THEN [pc |-> "refresh", call |-> [c EXCEPT !.r2 = Got(tr)]]
    ELSE AfterRequest([c EXCEPT !.r2 = Got(tr)],
                      RequestResult(tr, json_error_wrapped), a, r)

\* The resend's response: it goes straight to `if not response.ok`, with no
\* second look at the 401 condition.
AfterResend(c, tr, a, r) ==
    AfterRequest([c EXCEPT !.r2 = Got(tr)],
                 RequestResult(tr, json_error_wrapped), a, r)

\* The resend reusing the headers of the first send.
ResendHeadersStale(c, access) == c.events[1].auth

\* headers = self._get_headers() before the resend.
ResendHeaders(c, access) == _get_headers(access)

\* The exception that leaves _request when `raise` re-raises e in the
\* `except Exception` clause: a RequestException is caught by the outer
\* `except requests.exceptions.RequestException` and wrapped.
Reraised(e) == IF e.cls = "RequestException" THEN RequestFailed ELSE e

Go(t, next) ==
    /\ pc' = [pc EXCEPT ![t] = next.pc]
    /\ call' = [call EXCEPT ![t] = next.call]

-----------------------------------------------------------------------------
(* Construction.                                                           *)

\* The threads that can share one client.
Threads == {1, 2}

\* HSEClient(access_token = a, on_token_refresh = ...) used by the threads T.
Construct(T) ==
    /\ access_token \in Tokens
    /\ refresh_token = NoToken
    /\ on_token_refresh \in BOOLEAN
    /\ json_error_wrapped \in BOOLEAN
    /\ threads = T
    /\ pc = [t \in Threads |-> "idle"]
    /\ call = [t \in Threads |-> Idle]

Init == Construct({1})

-----------------------------------------------------------------------------
(* The public methods: each starts a call of an idle thread.               *)

\* _request up to session.request(...): the headers are built from the
\* current access token and the request is given to the transport.
_request(t, op, token) ==
    Go(t, [pc |-> "send",
           call |-> Sent(NewCall(op, access_token, refresh_token), "send",
                         _get_headers(access_token), token)])

\* login(email, password)
login(t) ==
    /\ t \in threads
    /\ pc[t] = "idle"
    /\ _request(t, "login", NoToken)
    /\ UNCHANGED <<access_token, refresh_token, config>>

\* signup(name, email, password, organization_name)
signup(t) ==
    /\ t \in threads
    /\ pc[t] = "idle"
    /\ _request(t, "signup", NoToken)
    /\ UNCHANGED <<access_token, refresh_token, config>>

\* Any resource method (list_stations, get_audit, ...): one _request.
Resource(t) ==
    /\ t \in threads
    /\ pc[t] = "idle"
    /\ _request(t, "resource", NoToken)
    /\ UNCHANGED <<access_token, refresh_token, config>>

\* logout(): the request is sent only `if self.refresh_token`, then
\* clear_tokens().
logout(t) ==
    /\ t \in threads
    /\ pc[t] = "idle"
    /\ IF Present(refresh_token)
       THEN _request(t, "logout", refresh_token)
       ELSE Go(t, [pc |-> "clr_a",
                   call |-> [NewCall("logout", access_token, refresh_token)
                               EXCEPT !.after = "return"]])
    /\ UNCHANGED <<access_token, refresh_token, config>>

\* set_tokens(AuthTokens(access, refresh)) called by the application.
set_tokens(t) ==
    /\ t \in threads
    /\ pc[t] = "idle"
    /\ \E n \in 1..MaxPair :
         Go(t, [pc |-> "set_a",
                call |-> [NewCall("set_tokens", access_token, refresh_token)
                            EXCEPT !.tok = <<n, n>>, !.after = "return"]])
    /\ UNCHANGED <<access_token, refresh_token, config>>

\* clear_tokens() called by the application.
clear_tokens(t) ==
    /\ t \in threads
    /\ pc[t] = "idle"
    /\ Go(t, [pc |-> "clr_a",
              call |-> [NewCall("clear_tokens", access_token, refresh_token)
                          EXCEPT !.after = "return"]])
    /\ UNCHANGED <<access_token, refresh_token, config>>

-----------------------------------------------------------------------------
(* The steps of _request, _refresh_access_token, set_tokens, clear_tokens. *)

\* The first session.request returns or raises; on 401 with retry_on_401 and
\* a refresh token the call enters the try block, otherwise it finishes.
FirstResponse(t) ==
    /\ pc[t] = "send"
    /\ \E ans \in ServerAnswers(threads) :
         LET tr == Transport(ans)
             c == call[t]
         IN  IF tr.failed
             THEN Go(t, AfterRequest([c EXCEPT !.r1 = Failed], Raise(RequestFailed),
                                     access_token, refresh_token))
             ELSE IF ShouldRefresh(tr.status, RetryOn401("send"), refresh_token)
             THEN Go(t, [pc |-> "refresh", call |-> [c EXCEPT !.r1 = Got(tr)]])
             ELSE Go(t, AfterRequest([c EXCEPT !.r1 = Got(tr)],
                                     RequestResult(tr, json_error_wrapped),
                                     access_token, refresh_token))
    /\ UNCHANGED <<access_token, refresh_token, config>>

\* A refresh cycle that waits while another thread is in its own.
RefreshSerialized(t) ==
    /\ pc[t] = "refresh"
    /\ \A u \in Threads \ {t} : pc[u] \notin {"rsend", "set_a", "set_r"}
    /\ LET c == call[t]
           e == Exc("AuthenticationError", 0, "No refresh token available", "none")
       IN  IF ~Present(refresh_token)
           THEN Go(t, [pc |-> "clr_a",
                       call |-> [c EXCEPT !.refreshOut = Raise(e), !.pend = e,
                                          !.cleared = TRUE, !.after = "raise"]])
           ELSE Go(t, [pc |-> "rsend",
                       call |-> Sent(c, "refresh", _get_headers(access_token),
                                     refresh_token)])
    /\ UNCHANGED <<access_token, refresh_token, config>>

\* A refresh cycle without the `if not self.refresh_token` check.
RefreshUnchecked(t) ==
    /\ pc[t] = "refresh"
    /\ Go(t, [pc |-> "rsend",
              call |-> Sent(call[t], "refresh", _get_headers(access_token),
                            refresh_token)])
    /\ UNCHANGED <<access_token, refresh_token, config>>

\* _refresh_access_token up to the session.request of its _request: without
\* a refresh token it raises, which the except clause of the caller handles.
_refresh_access_token(t) ==
    /\ pc[t] = "refresh"
    /\ LET c == call[t]
           e == Exc("AuthenticationError", 0, "No refresh token available", "none")
       IN  IF ~Present(refresh_token)
           THEN Go(t, [pc |-> "clr_a",
                       call |-> [c EXCEPT !.refreshOut = Raise(e), !.pend = e,
                                          !.cleared = TRUE, !.after = "raise"]])
           ELSE Go(t, [pc |-> "rsend",
                       call |-> Sent(c, "refresh", _get_headers(access_token),
                                     refresh_token)])
    /\ UNCHANGED <<access_token, refresh_token, config>>

\* The refresh request returns or raises.  Its _request runs with
\* retry_on_401 = False; the result goes through AuthTokens(...) to
\* set_tokens, an exception goes to the except clause of the caller.
RefreshResponse(t) ==
    /\ pc[t] = "rsend"
    /\ \E ans \in ServerAnswers(threads) :
         LET tr == Transport(ans)
             c == [call[t] EXCEPT !.rR = Got(tr)]
             out == IF tr.failed THEN Raise(RequestFailed)
                    ELSE RequestResult(tr, json_error_wrapped)
             ext == IF out.kind = "raise" THEN out ELSE ExtractTokens(out.value)
         IN  IF ~tr.failed /\ ShouldRefresh(tr.status, RetryOn401("refresh"), refresh_token)
             THEN Go(t, [pc |-> "refresh", call |-> c])
             ELSE IF ext.kind = "raise"
             THEN Go(t, [pc |-> "clr_a",
                         call |-> [c EXCEPT !.refreshOut = ext, !.pend = ext.exc,
                                            !.cleared = TRUE, !.after = "raise"]])
             ELSE Go(t, [pc |-> "set_a",
                         call |-> [c EXCEPT !.tok = <<ext.value.access, ext.value.refresh>>,
                                            !.after = "resend"]])
    /\ UNCHANGED <<access_token, refresh_token, config>>

\* An observer that is invoked twice for one replacement.
NotifyTwice(c, registered, held) ==
    IF registered
    THEN [c EXCEPT !.notified = @ \o << [tokens |-> c.tok, held |-> held],
                                        [tokens |-> c.tok, held |-> held] >>]
    ELSE c

\* `if self.on_token_refresh: self.on_token_refresh(tokens)` at the end of
\* set_tokens, while the client holds the tokens `held`.
Notify(c, registered, held) ==
    IF registered
    THEN [c EXCEPT !.notified = Append(@, [tokens |-> c.tok, held |-> held])]
    ELSE c

\* set_tokens: self.access_token = tokens.access_token
SetAccess(t) ==
    /\ pc[t] = "set_a"
    /\ access_token' = call[t].tok[1]
    /\ pc' = [pc EXCEPT ![t] = "set_r"]
    /\ UNCHANGED <<refresh_token, config, call>>

\* set_tokens: self.refresh_token = tokens.refresh_token, then the observer.
\* In the refresh cycle the resend follows, with rebuilt headers.
SetRefresh(t) ==
    /\ pc[t] = "set_r"
    /\ refresh_token' = call[t].tok[2]
    /\ LET c == Notify(call[t], on_token_refresh, <<access_token, call[t].tok[2]>>)
       IN  IF c.after = "resend"
           THEN Go(t, [pc |-> "resend",
                       call |-> Sent([c EXCEPT !.refreshed = c.tok,
                                               !.refreshOut = Return(NoneValue)],
                                     "resend", ResendHeaders(c, access_token), NoToken)])
           ELSE Go(t, [pc |-> "idle",
                       call |-> [c EXCEPT !.result = Return(c.req.value)]])
    /\ UNCHANGED <<access_token, config>>

\* The resend returns or raises; a transport failure is raised inside the
\* try block, so the except clause clears the tokens before re-raising.
ResendResponse(t) ==
    /\ pc[t] = "resend"
    /\ \E ans \in ServerAnswers(threads) :
         LET tr == Transport(ans)
             c == call[t]
         IN  IF tr.failed
             THEN Go(t, [pc |-> "clr_a",
                         call |-> [c EXCEPT !.r2 = Failed, !.pend = TransportError,
                                            !.cleared = TRUE, !.after = "raise"]])
             ELSE Go(t, AfterResend(c, tr, access_token, refresh_token))
    /\ UNCHANGED <<access_token, refresh_token, config>>

\* clear_tokens: self.access_token = None
ClearAccess(t) ==
    /\ pc[t] = "clr_a"
    /\ access_token' = NoToken
    /\ pc' = [pc EXCEPT ![t] = "clr_r"]
    /\ UNCHANGED <<refresh_token, config, call>>

\* clear_tokens: self.refresh_token = None; in the except clause the
\* exception is then re-raised out of _request.
ClearRefresh(t) ==
    /\ pc[t] = "clr_r"
    /\ refresh_token' = NoToken
    /\ LET c == call[t]
       IN  IF c.after = "raise"
           THEN Go(t, AfterRequest(c, Raise(Reraised(c.pend)), access_token, NoToken))
           ELSE Go(t, [pc |-> "idle", call |-> [c EXCEPT !.result = Return(NoneValue)]])
    /\ UNCHANGED <<access_token, config>>

Next ==
    \E t \in Threads :
        \/ login(t)
        \/ signup(t)
        \/ Resource(t)
        \/ logout(t)
        \/ set_tokens(t)
        \/ clear_tokens(t)
        \/ FirstResponse(t)
        \/ _refresh_access_token(t)
        \/ RefreshResponse(t)
        \/ SetAccess(t)
        \/ SetRefresh(t)
        \/ ResendResponse(t)
        \/ ClearAccess(t)
        \/ ClearRefresh(t)

Spec == Init /\ [][Next]_vars

-----------------------------------------------------------------------------
(* Two threads sharing one client that holds a token pair.                 *)

\* The client after a login that committed pair 1; each thread has called
\* a resource method and its request is with the transport.
InitShared ==
    /\ access_token = 1
    /\ refresh_token = 1
    /\ on_token_refresh = TRUE
    /\ json_error_wrapped = TRUE
    /\ threads = Threads
    /\ pc = [t \in Threads |-> "send"]
    /\ call = [t \in Threads |->
                 Sent(NewCall("resource", 1, 1), "send", _get_headers(1), NoToken)]

\* The steps of the two calls interleave; each thread makes one call.
NextShared ==
    \E t \in Threads :
        \/ FirstResponse(t)
        \/ _refresh_access_token(t)
        \/ RefreshResponse(t)
        \/ SetAccess(t)
        \/ SetRefresh(t)
        \/ ResendResponse(t)
        \/ ClearAccess(t)
        \/ ClearRefresh(t)

SpecShared == InitShared /\ [][NextShared]_vars

-----------------------------------------------------------------------------
(* _handle_error on its own: every failing status with every body.         *)

\* The statuses _handle_error is applied to.
FailingStatuses == {400, 401, 402, 403, 404, 409, 422, 429, 499, 500, 501, 503, 599}

\* A response with a failing status is about to be classified.
InitClassify ==
    /\ access_token = NoToken
    /\ refresh_token = NoToken
    /\ on_token_refresh = FALSE
    /\ json_error_wrapped = TRUE
    /\ threads = {1}
    /\ \E resp \in [status : FailingStatuses, body : Bodies] :
         /\ pc = [t \in Threads |-> IF t = 1 THEN "classify" ELSE "idle"]
         /\ call = [t \in Threads |->
                      IF t = 1 THEN [Idle EXCEPT !.r1 = resp] ELSE Idle]

\* self._handle_error(response)
Classify(t) ==
    /\ t \in threads
    /\ pc[t] = "classify"
    /\ Go(t, [pc |-> "classified",
              call |-> [call[t] EXCEPT !.req = Raise(_handle_error(call[t].r1))]])
    /\ UNCHANGED <<access_token, refresh_token, config>>

NextClassify == \E t \in Threads : Classify(t)

SpecClassify == InitClassify /\ [][NextClassify]_vars

-----------------------------------------------------------------------------
(* Properties.                                                             *)

\* How many requests of the call were of the given sort.
Count(c, what) == Cardinality({i \in DOMAIN c.events : c.events[i].what = what})

\* The sorts of the requests of the call, in the order they were made.
Order(c) == [i \in DOMAIN c.events |-> c.events[i].what]

\* The public call of thread t has finished.
Done(t) == pc[t] = "idle" /\ call[t].op # "none"

\* The call of thread t has left _request (returned or raised).
Left(t) == call[t].req.kind # "none"

Success(status) == 200 <= status /\ status <= 299

\* What a successful response is parsed to: nothing for 204 or an empty
\* body, else the JSON value.
Parsed(resp) ==
    IF resp.status = 204 \/ resp.body.shape = "empty" THEN NoneValue ELSE resp.body

\* A response _request can return a value for.
Parseable(resp) ==
    resp.status = 204 \/ resp.body.shape \in {"empty", "list", "obj"}

\* C1: a call gives the original request to the transport at most twice, and
\* when the resend is answered with 401 the call fails with the
\* AuthenticationError of that response after exactly one refresh request
\* and two sends.
C1_AtMostTwoSends ==
    \A t \in threads :
        LET c == call[t] IN
        /\ Count(c, "send") + Count(c, "resend") <= 2
        /\ c.r2.status = 401 =>
             /\ Left(t)
             /\ c.req = Raise(Exc("AuthenticationError", 401,
                                  ErrorMessage(c.r2.body), ErrorDetails(c.r2.body)))
             /\ Count(c, "refresh") = 1
             /\ Count(c, "send") + Count(c, "resend") = 2

\* A finished call whose resend was answered with 401.
C1_Witness ==
    \E t \in threads : Done(t) /\ call[t].r2.status = 401 /\ call[t].op = "resource"

\* C2: first send 401, refresh succeeds with a new pair, resend succeeds: the
\* requests are send, refresh, resend in this order, the resend carries
\* "Bearer <new access token>", _request returns the resend's parsed body and
\* the client then holds exactly the pair of the refresh response.
C2_RefreshThenResend ==
    \A t \in threads :
        LET c == call[t] IN
        ( /\ Left(t)
          /\ c.r1.status = 401
          /\ Present(c.pre[2])
          /\ Success(c.rR.status) /\ c.rR.body \in {TokenBody(n) : n \in 1..MaxPair}
          /\ Success(c.r2.status) /\ Parseable(c.r2) )
        => /\ Order(c) = <<"send", "refresh", "resend">>
           /\ c.events[3].auth = <<"Bearer", c.rR.body.access>>
           /\ c.req = Return(Parsed(c.r2))
           /\ c.reqTok = <<c.rR.body.access, c.rR.body.refresh>>
           /\ (Done(t) /\ c.op = "resource" =>
                 /\ access_token = c.rR.body.access
                 /\ refresh_token = c.rR.body.refresh
                 /\ c.result = Return(Parsed(c.r2)))

\* A finished resource call that was refreshed to a pair other than the one
\* held before, and whose resend returned a JSON object.
C2_Witness ==
    \E t \in threads :
        LET c == call[t] IN
        /\ Done(t) /\ c.op = "resource"
        /\ c.r1.status = 401
        /\ c.refreshed[1] # c.pre[1] /\ Present(c.pre[1])
        /\ c.r2.status = 200 /\ c.r2.body.shape = "obj"
        /\ c.result.kind = "return"

\* C3: first send 401, refresh request answered with 401: afterwards both
\* tokens are absent, nothing was resent, and the caller gets the
\* AuthenticationError built from the refresh response.
C3_RefreshRejected ==
    \A t \in threads :
        LET c == call[t] IN
        (Left(t) /\ c.r1.status = 401 /\ Present(c.pre[2]) /\ c.rR.status = 401)
        => /\ c.reqTok = <<NoToken, NoToken>>
           /\ Count(c, "resend") = 0 /\ Count(c, "send") = 1
           /\ c.req = Raise(Exc("AuthenticationError", 401,
                                ErrorMessage(c.rR.body), ErrorDetails(c.rR.body)))
           /\ (Done(t) =>
                 /\ access_token = NoToken /\ refresh_token = NoToken
                 /\ c.result = c.req)

\* A finished call whose refresh was rejected with a body that differs from
\* the body of the first 401.
C3_Witness ==
    \E t \in threads :
        LET c == call[t] IN
        /\ Done(t)
        /\ c.r1.status = 401 /\ c.rR.status = 401
        /\ Present(c.pre[1])
        /\ ErrorMessage(c.rR.body) # ErrorMessage(c.r1.body)

\* C4: whenever the refresh cycle fails inside the unauthorized-retry path,
\* whatever the cause, the caller receives an AuthenticationError and both
\* tokens are absent after the call.
C4_RefreshFailureIsAuthError ==
    \A t \in threads :
        LET c == call[t] IN
        (Left(t) /\ c.refreshOut.kind = "raise")
        => /\ c.req.kind = "raise"
           /\ c.req.exc.cls = "AuthenticationError"
           /\ c.reqTok = <<NoToken, NoToken>>

\* C5: the refresh request never starts a refresh cycle of its own: a call
\* makes at most one request to /api/auth/refresh, and a 401 answer to it is
\* followed by no further request of the call.
C5_NoNestedRefresh ==
    \A t \in threads :
        LET c == call[t] IN
        /\ Count(c, "refresh") <= 1
        /\ c.rR.status = 401 =>
             /\ Len(c.events) = 2
             /\ c.events[2].what = "refresh"
             /\ pc[t] \in {"clr_a", "clr_r", "idle"}

\* A finished login whose refresh request was answered with 401.
C5_Witness ==
    \E t \in threads :
        LET c == call[t] IN
        Done(t) /\ c.op = "login" /\ c.rR.status = 401 /\ Count(c, "refresh") = 1

\* C6: a 401 while no refresh token is held: no refresh request, no resend,
\* the call fails with the AuthenticationError of that 401 response and the
\* tokens are as they were.
C6_NoRefreshToken ==
    \A t \in threads :
        LET c == call[t] IN
        (Left(t) /\ c.r1.status = 401 /\ ~Present(c.pre[2]))
        => /\ Order(c) = <<"send">>
           /\ c.req = Raise(Exc("AuthenticationError", 401,
                                ErrorMessage(c.r1.body), ErrorDetails(c.r1.body)))
           /\ c.reqTok = c.pre
           /\ (Done(t) => access_token = c.pre[1] /\ refresh_token = c.pre[2]
                          /\ c.result = c.req)

\* A finished call of a client that holds an access token and no refresh
\* token, answered with 401.
C6_Witness ==
    \E t \in threads :
        LET c == call[t] IN
        /\ Done(t) /\ c.r1.status = 401
        /\ Present(c.pre[1]) /\ ~Present(c.pre[2])
        /\ access_token = c.pre[1]

\* C7: between operations access_token and refresh_token are both present
\* or both absent.
C7_BothOrNeither ==
    \A t \in threads :
        pc[t] = "idle" => (Present(access_token) <=> Present(refresh_token))

\* C8: a call whose refresh cycle succeeded leaves _request with the client
\* holding the refreshed pair, whatever became of the resend.
C8_RefreshedPairKept ==
    \A t \in threads :
        LET c == call[t] IN
        (Left(t) /\ c.refreshOut.kind = "return")
        => /\ c.reqTok = c.refreshed
           /\ Present(c.reqTok[1]) /\ Present(c.reqTok[2])

\* C9: after every logout both tokens are absent, and the logout request is
\* sent only when a refresh token was held before the call.
C9_LogoutClears ==
    \A t \in threads :
        LET c == call[t] IN
        (Done(t) /\ c.op = "logout")
        => /\ access_token = NoToken /\ refresh_token = NoToken
           /\ (Count(c, "send") > 0 => Present(c.pre[2]))

\* The call has a final response: the resend's, or the first when no refresh
\* cycle was entered.
HasFinal(c) ==
    c.r2.status > 0 \/ (c.r1.status > 0 /\ c.refreshOut.kind = "none" /\ c.rR = NoAnswer)

Final(c) == IF c.r2.status > 0 THEN c.r2 ELSE c.r1

C11_ClassifyTotal ==
    \A t \in threads :
        LET c == call[t]
            s == c.r1.status
            e == c.req.exc
        IN  pc[t] = "classified"
            => /\ c.req.kind = "raise"
               /\ e.cls \in TypedErrors
               /\ e.status = s
               /\ e.cls = "AuthenticationError" <=> s = 401
               /\ e.cls = "ValidationError" <=> s = 400
               /\ e.cls = "NotFoundError" <=> s = 404
               /\ e.cls = "RateLimitError" <=> s = 429
               /\ e.cls = "ServerError" <=> s >= 500
               /\ e.cls = "HSEAPIError" <=> (s \notin {400, 401, 404, 429} /\ s < 500)

\* A 500 with a JSON non-object body classified as ServerError.
C11_Witness ==
    \E t \in threads :
        LET c == call[t] IN
        /\ pc[t] = "classified"
        /\ c.r1.status = 500 /\ c.r1.body.shape = "list"
        /\ c.req.exc.cls = "ServerError" /\ c.req.exc.status = 500

\* C18 as claimed: the message is the "error" field when the body is JSON
\* with that field, otherwise the raw text when it is not empty (also for a
\* JSON object without "error"), otherwise "Unknown error"; details is the
\* "details" field when present.
C18_MessageFallsBackToText ==
    \A t \in threads :
        LET c == call[t]
            b == c.r1.body
            e == c.req.exc
        IN  pc[t] = "classified"
            => /\ e.msg = IF b.shape = "obj" /\ b.error THEN "error-field"
                          ELSE IF b.shape # "empty" THEN "raw-text"
                          ELSE "Unknown error"
               /\ e.details = IF b.shape = "obj" /\ b.details
                              THEN "details-field" ELSE "none"

\* C18 as amended: a JSON object gives its "error" field, or "Unknown error"
\* when it has none; a body that is not a JSON object (non-JSON text, JSON
\* non-object) gives the raw text, or "Unknown error" when the text is empty;
\* details is the "details" field of a JSON object, absent otherwise.
C18_MessageOfBody ==
    \A t \in threads :
        LET c == call[t]
            b == c.r1.body
            e == c.req.exc
        IN  pc[t] = "classified"
            => /\ b.shape = "obj" => e.msg = IF b.error THEN "error-field"
                                             ELSE "Unknown error"
               /\ b.shape \in {"text", "list"} => e.msg = "raw-text"
               /\ b.shape = "empty" => e.msg = "Unknown error"
               /\ e.details = IF b.shape = "obj" /\ b.details
                              THEN "details-field" ELSE "none"

\* A JSON object with "details" and no "error" classified with the message
\* "Unknown error" and its details.
C18_Witness ==
    \E t \in threads :
        LET c == call[t] IN
        /\ pc[t] = "classified"
        /\ c.r1.body = Body("obj", FALSE, TRUE, 0, 0)
        /\ c.req.exc.msg = "Unknown error"
        /\ c.req.exc.details = "details-field"

\* C12: after a login or signup that returns on a response carrying the
\* pair (A, R), the client holds A and R and its Authorization header is
\* "Bearer A", whatever it held before and whether or not a refresh cycle
\* happened during the call.
C12_LoginCommitsPair ==
    \A t \in threads :
        LET c == call[t]
            b == Final(c).body
        IN  (Done(t) /\ c.op \in {"login", "signup"} /\ c.result.kind = "return")
            => /\ HasFinal(c)
               /\ Present(b.access) /\ Present(b.refresh)
               /\ c.result.value = b
               /\ access_token = b.access
               /\ refresh_token = b.refresh
               /\ _get_headers(access_token) = <<"Bearer", b.access>>

\* A login that returned after a refresh cycle to another pair than the one
\* its own response carried, on a client that held a third state before.
C12_Witness ==
    \E t \in threads :
        LET c == call[t] IN
        /\ Done(t) /\ c.op = "login" /\ c.result.kind = "return"
        /\ c.refreshOut.kind = "return"
        /\ c.refreshed[1] # access_token
        /\ access_token = c.r2.body.access

\* The observer invocations a finished call must have made: one for the pair
\* of a successful refresh cycle, then one for the pair a successful login,
\* signup or set_tokens committed.
Replacements(c) ==
    (IF c.refreshOut.kind = "return"
     THEN << [tokens |-> c.refreshed, held |-> c.refreshed] >> ELSE << >>)
    \o
    (IF c.op \in {"login", "signup", "set_tokens"} /\ c.result.kind = "return"
     THEN << [tokens |-> c.tok, held |-> c.tok] >> ELSE << >>)

\* C13: a registered observer is invoked exactly once for every credential
\* replacement, with the new pair and while both fields already hold it;
\* clear_tokens, logout and calls that replace nothing do not invoke it, and
\* without an observer nothing is invoked.
C13_ObserverOncePerReplacement ==
    \A t \in threads :
        LET c == call[t] IN
        /\ \A i \in DOMAIN c.notified : c.notified[i].held = c.notified[i].tokens
        /\ ~on_token_refresh => c.notified = << >>
        /\ (Done(t) /\ on_token_refresh) => c.notified = Replacements(c)
        /\ (Done(t) /\ c.op \in {"clear_tokens", "logout", "resource"}
                    /\ c.refreshOut.kind # "return") => c.notified = << >>

\* A finished login with an observer, refreshed to one pair and logged in
\* with another: two invocations.
C13_Witness ==
    \E t \in threads :
        LET c == call[t] IN
        /\ Done(t) /\ on_token_refresh /\ c.op = "login"
        /\ Len(c.notified) = 2
        /\ c.notified[1].tokens # c.notified[2].tokens

\* C16: a transport failure on the first send makes the call fail with a
\* plain HSEAPIError without status code that wraps the failure; no refresh
\* request is sent and the tokens are unchanged.
C16_TransportFailure ==
    \A t \in threads :
        LET c == call[t] IN
        (Left(t) /\ c.r1 = Failed)
        => /\ c.req = Raise(Exc("HSEAPIError", 0, "Request failed", "none"))
           /\ c.result = c.req
           /\ Order(c) = <<"send">>
           /\ c.reqTok = c.pre
           /\ (Done(t) => access_token = c.pre[1] /\ refresh_token = c.pre[2])

\* A finished resource call of a client holding a pair whose first send
\* failed in the transport.
C16_Witness ==
    \E t \in threads :
        LET c == call[t] IN
        /\ Done(t) /\ c.op = "resource" /\ c.r1 = Failed
        /\ Present(c.pre[2]) /\ refresh_token = c.pre[2]

\* A first response other than 401 leaves the tokens alone in _request.
NoRefreshWithout401 ==
    \A t \in threads :
        LET c == call[t] IN
        (Left(t) /\ c.r1.status > 0 /\ c.r1.status # 401)
        => /\ c.reqTok = c.pre
           /\ Order(c) = <<"send">>
           /\ c.refreshOut.kind = "none"
           /\ c.reqNotified = 0

\* A step that changes a token is a step of set_tokens (called by the
\* application, after a successful login or signup, or in a successful
\* refresh cycle) or of clear_tokens.
TokensChangeOnlyInSetOrClear ==
    <<access_token, refresh_token>>' # <<access_token, refresh_token>>
    => \E t \in threads :
          \/ /\ pc[t] \in {"set_a", "set_r"}
             /\ \/ call[t].op = "set_tokens"
                \/ /\ call[t].op \in {"login", "signup"}
                   /\ call[t].req.kind = "return"
                \/ /\ call[t].after = "resend"
                   /\ call[t].rR.status > 0
                   /\ call[t].rR.status < 400
          \/ pc[t] \in {"clr_a", "clr_r"}

\* C19: a call whose first response is not 401 leaves the tokens unchanged,
\* sends no refresh request and does not invoke the observer inside _request;
\* the tokens change only in set_tokens and clear_tokens.
C19_FrameOfRequest ==
    []NoRefreshWithout401 /\ [][TokensChangeOnlyInSetOrClear]_vars

\* A finished resource call answered 403 on a client that holds a pair and
\* has an observer.
C19_Witness ==
    \E t \in threads :
        LET c == call[t] IN
        /\ Done(t) /\ c.op = "resource" /\ c.r1.status = 403
        /\ Present(c.pre[2]) /\ on_token_refresh
        /\ access_token = c.pre[1] /\ refresh_token = c.pre[2]

\* C20 as claimed: a login or signup answered with 401 raises the
\* AuthenticationError of that response, leaves the tokens as they were and
\* sends no refresh request, for every prior session state.
C20_Login401LeavesSession ==
    \A t \in threads :
        LET c == call[t] IN
        (Done(t) /\ c.op \in {"login", "signup"} /\ c.r1.status = 401)
        => /\ c.result.kind = "raise"
           /\ c.result.exc.cls = "AuthenticationError"
           /\ c.result.exc.status = 401
           /\ access_token = c.pre[1] /\ refresh_token = c.pre[2]
           /\ Count(c, "refresh") = 0

\* C20 as amended: on a client that holds no refresh token, a login or
\* signup answered with 401 raises the AuthenticationError (status 401) of
\* that response, sends no refresh request and leaves both tokens as they
\* were; on a client that holds a refresh token the 401 starts one refresh
\* cycle, as for any other call.
C20_Login401WithoutRefreshToken ==
    \A t \in threads :
        LET c == call[t] IN
        (Done(t) /\ c.op \in {"login", "signup"} /\ c.r1.status = 401)
        => IF Present(c.pre[2])
           THEN Count(c, "refresh") = 1 /\ c.events[2].token = c.pre[2]
           ELSE /\ c.result = Raise(Exc("AuthenticationError", 401,
                                        ErrorMessage(c.r1.body), ErrorDetails(c.r1.body)))
                /\ access_token = c.pre[1] /\ refresh_token = c.pre[2]
                /\ Count(c, "refresh") = 0
                /\ Order(c) = <<"send">>

\* A failed login on a never logged in client, answered 401 with an error
\* message.
C20_Witness ==
    \E t \in threads :
        LET c == call[t] IN
        /\ Done(t) /\ c.op = "login" /\ c.r1.status = 401
        /\ c.pre = <<NoToken, NoToken>>
        /\ c.result.exc.msg = "error-field"
        /\ access_token = NoToken /\ refresh_token = NoToken

\* The refresh requests of the call of thread t.
RefreshSent(t) == {i \in DOMAIN call[t].events : call[t].events[i].what = "refresh"}

\* C14: exactly-once refresh is not guaranteed under concurrency.  While the
\* refresh request of one thread is in flight, another thread that got 401
\* is not held back: its refresh cycle can send its own request with the
\* refresh token the client holds.
C14_RefreshNotSerialized ==
    \A t \in threads : \A u \in threads \ {t} :
        (pc[t] = "refresh" /\ pc[u] = "rsend" /\ Present(refresh_token))
            => ENABLED _refresh_access_token(t)

\* Both threads sent a refresh request carrying the same refresh token and
\* each committed a pair that replaced it.
C14_Witness ==
    \E i \in RefreshSent(1), j \in RefreshSent(2) :
        /\ call[1].events[i].token = call[2].events[j].token
        /\ call[1].refreshOut.kind = "return"
        /\ call[2].refreshOut.kind = "return"
        /\ call[1].refreshed[2] # call[1].events[i].token
        /\ call[2].refreshed[2] # call[2].events[j].token

\* C15: set_tokens and clear_tokens are atomic with respect to each other.
\* When one call has committed a refreshed pair and the other has cleared,
\* the client ends with both tokens of one pair or with both absent.
C15_SetAndClearAtomic ==
    \A t \in threads : \A u \in threads \ {t} :
        ( /\ Done(t) /\ Done(u)
          /\ call[t].refreshOut.kind = "return" /\ ~call[t].cleared
          /\ call[u].refreshOut.kind # "return" /\ call[u].cleared )
            => access_token = refresh_token

\* C17: the refresh cycle entered with no refresh token fails at once with
\* AuthenticationError "No refresh token available": no request is sent,
\* the observer is not invoked and the tokens are left as they are.
C17_NoRefreshTokenFailsAtOnce ==
    [][\A t \in threads :
         (pc[t] = "refresh" /\ ~Present(refresh_token) /\ pc'[t] # pc[t])
            => /\ call'[t].refreshOut =
                    Raise(Exc("AuthenticationError", 0,
                              "No refresh token available", "none"))
               /\ call'[t].events = call[t].events
               /\ call'[t].notified = call[t].notified
               /\ access_token' = access_token
               /\ refresh_token' = refresh_token]_vars

\* A thread whose refresh cycle found no refresh token, after a 401 to a
\* request it sent while the client still held one.
C17_Witness ==
    \E t \in threads :
        /\ call[t].refreshOut =
              Raise(Exc("AuthenticationError", 0, "No refresh token available", "none"))
        /\ Count(call[t], "refresh") = 0
        /\ Present(call[t].pre[2])

====
